---------------------------- MODULE Spec2Model ----------------------------
(***************************************************************************)
(* A model of cryptolib's TEA block cipher (cryptolib/algorithms/          *)
(* symmetric/tea.py, class TEA, version 0.3.1) and of the mode classes it  *)
(* dispatches on (cryptolib/modes.py).                                     *)
(*                                                                         *)
(* Python integers are unbounded; TLC's are 32-bit signed.  An integer w   *)
(* of the cipher is therefore held as the pair <<hi, lo>> with             *)
(* w = hi * 2^16 + lo and 0 <= lo < 2^16; hi is any integer, so a value    *)
(* that has left [0, 2^32) (before the code's "& 0xffffffff") is still     *)
(* represented exactly.                                                    *)
(***************************************************************************)
EXTENDS Integers, Sequences, FiniteSets

(***************************************************************************)
(* Bounds of the model.                                                    *)
(***************************************************************************)
NumKeys == 1
NumBlocks == 2
NumIvs == 2
NumCtx == 2
NumTails == 2

(***************************************************************************)
(* Program constants.                                                      *)
(***************************************************************************)
ROUNDS == 32
DELTA == <<40503, 31161>>            \* 0x9e3779b9
DecryptStartSum == <<50927, 14112>>  \* 0xC6EF3720
key_size == 128
block_size == 64

Half == 256 * 256

(***************************************************************************)
(* Integer arithmetic on <<hi, lo>> pairs.                                 *)
(***************************************************************************)
Norm(hi, lo) == <<hi + (lo \div Half), lo % Half>>

Add(a, b) == Norm(a[1] + b[1], a[2] + b[2])

Sub(a, b) == Norm(a[1] - b[1], a[2] - b[2])

\* x << 4 (no width: Python's shift never drops bits)
Shl4(a) == Norm(a[1] * 16, a[2] * 16)

\* x >> 5, x >= 0
Shr5(a) == <<a[1] \div 32, ((a[1] % 32) * 2048) + (a[2] \div 32)>>

\* a ^ b bit by bit, a >= 0 and b >= 0
RECURSIVE XorBits(_, _)
XorBits(a, b) ==
  IF a = 0 THEN b
  ELSE IF b = 0 THEN a
  ELSE ((a + b) % 2) + 2 * XorBits(a \div 2, b \div 2)

\* the same, of two bytes, computed once
XorOfBytes == [a \in 0..255 |-> [b \in 0..255 |-> XorBits(a, b)]]

\* a ^ b byte by byte, a >= 0 and b >= 0
RECURSIVE BitXor(_, _)
BitXor(a, b) ==
  IF a < 256 /\ b < 256 THEN XorOfBytes[a][b]
  ELSE XorOfBytes[a % 256][b % 256] + 256 * BitXor(a \div 256, b \div 256)

\* x ^ y, x >= 0 and y >= 0
Xor(a, b) == <<BitXor(a[1], b[1]), BitXor(a[2], b[2])>>

\* x & 0xffffffff (of a negative x too: Python's & is two's complement)
Mask32(a) == <<a[1] % Half, a[2]>>

\* a key byte self.key[i] as an integer
OfByte(k) == <<0, k>>

InRange32(a) == a[1] >= 0 /\ a[1] < Half /\ a[2] >= 0 /\ a[2] < Half

(***************************************************************************)
(* The round expression                                                    *)
(*   ((v << 4) + ka ^ (v + s) ^ (v >> 5) + kb) & 0xffffffff                *)
(* In Python + binds tighter than ^.                                       *)
(***************************************************************************)
Mix(v, s, ka, kb) ==
  Mask32(Xor(Xor(Add(Shl4(v), OfByte(ka)), Add(v, s)), Add(Shr5(v), OfByte(kb))))

(***************************************************************************)
(* Byte strings are sequences over 0..255.                                 *)
(***************************************************************************)
\* struct.unpack("!2I", b) of an 8-byte b
Unpack(b) == <<  <<b[1] * 256 + b[2], b[3] * 256 + b[4]>>,
                 <<b[5] * 256 + b[6], b[7] * 256 + b[8]>>  >>

\* struct.pack("!2I", v0, v1), v0 and v1 in [0, 2^32)
Pack(v0, v1) ==
  << v0[1] \div 256, v0[1] % 256, v0[2] \div 256, v0[2] % 256,
     v1[1] \div 256, v1[1] % 256, v1[2] \div 256, v1[2] % 256 >>

Min(a, b) == IF a < b THEN a ELSE b

\* bytes(a ^ b for a, b in zip(x, y))
XorBytes(x, y) == [i \in 1..Min(Len(x), Len(y)) |-> BitXor(x[i], y[i])]

Zero == <<0, 0>>

(***************************************************************************)
(* One round of each loop.  A round state is [v0, v1, s, i, used]: the     *)
(* loop's locals, the number of rounds run, and the sum the round used.    *)
(***************************************************************************)
\* the n-th 32-bit big-endian word of a 16-byte key
KeyWord(k, n) ==
  <<k[4 * n + 1] * 256 + k[4 * n + 2], k[4 * n + 3] * 256 + k[4 * n + 4]>>

\* the round expression over 32-bit subkeys
MixWords(v, s, ka, kb) ==
  Mask32(Xor(Xor(Add(Shl4(v), ka), Add(v, s)), Add(Shr5(v), kb)))

\* encrypt_block's round with the four 32-bit words of the key as subkeys
\* instead of its first four bytes
encrypt_round_key_words(st, k) ==
  LET s1 == Mask32(Add(st.s, DELTA))
      a  == Mask32(Add(st.v0, MixWords(st.v1, s1, KeyWord(k, 0), KeyWord(k, 1))))
      b  == Mask32(Add(st.v1, MixWords(a, s1, KeyWord(k, 2), KeyWord(k, 3))))
  IN  [v0 |-> a, v1 |-> b, s |-> s1, i |-> st.i + 1, used |-> s1]

\* encrypt_block, the body of "for _ in range(self.ROUNDS)"; k is self.key
encrypt_round(st, k) ==
  LET s1 == Mask32(Add(st.s, DELTA))
      a  == Mask32(Add(st.v0, Mix(st.v1, s1, k[1], k[2])))
      b  == Mask32(Add(st.v1, Mix(a, s1, k[3], k[4])))
  IN  [v0 |-> a, v1 |-> b, s |-> s1, i |-> st.i + 1, used |-> s1]

\* encrypt_iv with the sum advanced after the round's updates instead of
\* before them
encrypt_iv_round_sum_after(st, k) ==
  LET a  == Mask32(Add(st.v0, Mix(st.v1, st.s, k[1], k[2])))
      b  == Mask32(Add(st.v1, Mix(a, st.s, k[3], k[4])))
      s1 == Mask32(Add(st.s, DELTA))
  IN  [v0 |-> a, v1 |-> b, s |-> s1, i |-> st.i + 1, used |-> st.s]

\* encrypt_iv, the body of its loop (the same statements)
encrypt_iv_round(st, k) ==
  LET s1 == Mask32(Add(st.s, DELTA))
      a  == Mask32(Add(st.v0, Mix(st.v1, s1, k[1], k[2])))
      b  == Mask32(Add(st.v1, Mix(a, s1, k[3], k[4])))
  IN  [v0 |-> a, v1 |-> b, s |-> s1, i |-> st.i + 1, used |-> s1]

\* decrypt_block with the sum lowered before the round's updates instead of
\* after them
decrypt_round_sum_first(st, k) ==
  LET s1 == Mask32(Sub(st.s, DELTA))
      b  == Mask32(Sub(st.v1, Mix(st.v0, s1, k[3], k[4])))
      a  == Mask32(Sub(st.v0, Mix(b, s1, k[1], k[2])))
  IN  [v0 |-> a, v1 |-> b, s |-> s1, i |-> st.i + 1, used |-> s1]

\* decrypt_block, the body of its loop
decrypt_round(st, k) ==
  LET b  == Mask32(Sub(st.v1, Mix(st.v0, st.s, k[3], k[4])))
      a  == Mask32(Sub(st.v0, Mix(b, st.s, k[1], k[2])))
      s1 == Mask32(Sub(st.s, DELTA))
  IN  [v0 |-> a, v1 |-> b, s |-> s1, i |-> st.i + 1, used |-> st.s]

\* the locals as the loop starts: v0, v1 = struct.unpack(...); s = <start>
StartRounds(b, s0) ==
  [v0 |-> Unpack(b)[1], v1 |-> Unpack(b)[2], s |-> s0, i |-> 0, used |-> Zero]

NoRounds == [v0 |-> Zero, v1 |-> Zero, s |-> Zero, i |-> 0, used |-> Zero]

(***************************************************************************)
(* Python values.  An argument is [t |-> its type's name, b |-> its bytes  *)
(* when it is a bytes object].  A mode argument is the name of its class.  *)
(***************************************************************************)
Bytes(b) == [t |-> "bytes", b |-> b]
None == [t |-> "NoneType", b |-> <<>>]
Str == [t |-> "str", b |-> <<>>]

\* the class statements of modes.py: each class's base
Bases ==
  [ECB |-> "Mode", CBC |-> "IVMode", CFB |-> "IVMode", OFB |-> "IVMode",
   IVMode |-> "Mode", Mode |-> "ABC", ABC |-> "object", str |-> "object",
   object |-> "object"]

RECURSIVE IsSubclass(_, _)
IsSubclass(c, d) == c = d \/ (c # "object" /\ IsSubclass(Bases[c], d))

\* isinstance(mode, cls)
IsInstance(mode, cls) == IsSubclass(mode, cls)

\* the same test with OFB left out of the tuple
IsFeedbackCFBOnly(mode) == IsInstance(mode, "CFB")

\* isinstance(mode, (modes.CFB, modes.OFB))
IsFeedback(mode) == IsInstance(mode, "CFB") \/ IsInstance(mode, "OFB")

(***************************************************************************)
(* What a call ends in: a returned bytes object, or a raised exception,    *)
(* named by its class and by the argument its message is about.            *)
(***************************************************************************)
Ok(b) == [ok |-> TRUE, val |-> b, exc |-> "", about |-> ""]
Raise(exc, about) == [ok |-> FALSE, val |-> <<>>, exc |-> exc, about |-> about]
Pending == [ok |-> FALSE, val |-> <<>>, exc |-> "", about |-> ""]

\* TEA.__init__
TEA_init(k) ==
  IF k.t # "bytes" THEN Raise("TypeError", "key")
  ELSE IF Len(k.b) # key_size \div 8 THEN Raise("ValueError", "key")
  ELSE Ok(k.b)

\* the checks that open encrypt_block and decrypt_block
CheckArgs(block, mode, iv) ==
  IF block.t # "bytes" THEN Raise("TypeError", "block")
  ELSE IF ~IsInstance(mode, "Mode") THEN Raise("TypeError", "mode")
  ELSE IF iv.t # "bytes" THEN Raise("TypeError", "iv")
  ELSE IF Len(block.b) # block_size \div 8 THEN Raise("ValueError", "block")
  ELSE IF IsInstance(mode, "IVMode")
          /\ (Len(iv.b) = 0 \/ Len(iv.b) # block_size \div 8)
       THEN Raise("ValueError", "iv")
  ELSE Pending

\* the checks that open encrypt_iv
CheckIv(iv) ==
  IF iv.t # "bytes" THEN Raise("TypeError", "iv")
  ELSE IF Len(iv.b) # block_size \div 8 THEN Raise("ValueError", "iv")
  ELSE Pending

IsRaise(r) == r.exc # ""

(***************************************************************************)
(* The arguments the callers pass.                                         *)
(***************************************************************************)
KeyNo(n) == [i \in 1..16 |-> ((i - 1) + 17 * n) % 256]

BlockNo(n) ==
  IF n = 0 THEN <<1, 2, 3, 4, 5, 6, 7, 8>>
  ELSE IF n = 1 THEN <<255, 255, 255, 255, 255, 255, 255, 255>>
  ELSE [i \in 1..8 |-> (37 * n + 11 * i) % 256]

IvNo(n) ==
  IF n = 0 THEN <<0, 0, 0, 0, 0, 0, 0, 0>>
  ELSE [i \in 1..8 |-> (16 * n + i) % 256]

KeyArgs ==
  {Bytes(KeyNo(n)) : n \in 0..(NumKeys - 1)}
    \cup {Bytes(SubSeq(KeyNo(0), 1, 15)), Bytes(KeyNo(0) \o <<16>>), Str}

BlockArgs ==
  {Bytes(BlockNo(n)) : n \in 0..(NumBlocks - 1)}
    \cup {Bytes(SubSeq(BlockNo(0), 1, 7)), None}

IvArgs ==
  {Bytes(IvNo(n)) : n \in 0..(NumIvs - 1)}
    \cup {Bytes(<<>>), Bytes(SubSeq(IvNo(1), 1, 7)), None}

\* instances of the six classes of modes.py, and a str
ModeArgs == {"ECB", "CBC", "CFB", "OFB", "Mode", "IVMode", "str"}

\* the execution contexts that call the one cipher instance
Ctx == 1..NumCtx

(***************************************************************************)
(* State.                                                                  *)
(*   key      self.key (<<>> when the constructor raised)                  *)
(*   ctor     the constructor call: its argument and what it ended in      *)
(*   pc       where each context is in its call                            *)
(*   call     each context's call: the operation and the caller's objects  *)
(*   frame    the locals of an encrypt_block / decrypt_block call          *)
(*   ivframe  the locals of an encrypt_iv call                             *)
(*   result   what each context's call ended in                            *)
(* History, for stating the properties:                                    *)
(*   given    the arguments as they were when the call was made            *)
(*   nrounds  the rounds the call has run so far, of any loop              *)
(*   hist     the context's previous call, kept while the current call is  *)
(*            on the same data                                             *)
(***************************************************************************)
VARIABLES key, ctor, pc, call, frame, ivframe, result, given, nrounds, hist

vars == <<key, ctor, pc, call, frame, ivframe, result, given, nrounds, hist>>

NoCall == [op |-> "", block |-> None, mode |-> "", iv |-> None]
NoFrame == [block |-> <<>>, encrypted_iv |-> <<>>, rs |-> NoRounds]
NoHist == [call |-> NoCall, result |-> Pending]

\* the locals kept in one place for all calls (on the instance, say)
frameOfShared(p) == 1

\* the locals of a call live in a frame of that call's own
frameOf(p) == p

\* the XOR written into the caller's object instead
StoreBlockInPlace(args, b) == [args |-> [args EXCEPT !.block = Bytes(b)], local |-> b]

\* "block = bytes(...)" binds the local name to a new object; the caller's
\* object is another one
StoreBlock(args, b) == [args |-> args, local |-> b]

(***************************************************************************)
(* What a step leaves behind: the context's next position, what the call   *)
(* ended in (Pending while it runs), the caller's objects and the two      *)
(* frames.                                                                 *)
(***************************************************************************)
Exit(r, args, fr, ivfr) ==
  [pc |-> "done", result |-> r, args |-> args, fr |-> fr, ivfr |-> ivfr]

\* struct.pack("!2I", v0, v1) raises struct.error outside [0, 2^32)
PackResult(rs) ==
  IF InRange32(rs.v0) /\ InRange32(rs.v1) THEN Ok(Pack(rs.v0, rs.v1))
  ELSE Raise("struct.error", "")

\* "v0, v1 = struct.unpack("!2I", block)" and the loop's start, in
\* position at; struct.unpack raises struct.error unless block has 8 bytes
BeginRounds(at, args, b, eiv, s0, ivfr, fr) ==
  IF Len(b) # 8 THEN Exit(Raise("struct.error", ""), args, fr, ivfr)
  ELSE [pc |-> at, result |-> Pending, args |-> args,
        fr |-> [block |-> b, encrypted_iv |-> eiv, rs |-> StartRounds(b, s0)],
        ivfr |-> ivfr]

\* "self.encrypt_iv(iv)" called from encrypt_block or decrypt_block, up to
\* the start of its loop, in position at
BeginEncryptIv(at, args, fr, ivfr) ==
  IF IsRaise(CheckIv(args.iv)) THEN Exit(CheckIv(args.iv), args, fr, ivfr)
  ELSE [pc |-> at, result |-> Pending, args |-> args, fr |-> fr,
        ivfr |-> StartRounds(args.iv.b, Zero)]

\* encrypt_block from its first statement to the start of its loop
EncryptEntry(c, fr, ivfr) ==
  LET chk == CheckArgs(c.block, c.mode, c.iv)
  IN  IF IsRaise(chk) THEN Exit(chk, c, fr, ivfr)
      ELSE IF IsInstance(c.mode, "CBC") THEN
        LET st == StoreBlock(c, XorBytes(c.block.b, c.iv.b))
        IN  BeginRounds("encrypt_rounds", st.args, st.local, <<>>, Zero, ivfr, fr)
      ELSE IF IsFeedback(c.mode) THEN
        BeginEncryptIv("encrypt_iv_in_encrypt", c,
                       [block |-> c.block.b, encrypted_iv |-> <<>>, rs |-> NoRounds],
                       ivfr)
      ELSE IF IsInstance(c.mode, "ECB") THEN
        BeginRounds("encrypt_rounds", c, c.block.b, <<>>, Zero, ivfr, fr)
      ELSE Exit(Raise("ValueError", "mode"), c, fr, ivfr)

\* encrypt_block from the return of self.encrypt_iv(iv) to the start of its
\* loop: block = bytes(a ^ b for a, b in zip(block, encrypted_iv))
EncryptResume(c, fr, eiv) ==
  LET st == StoreBlock(c, XorBytes(fr.block, eiv))
  IN  BeginRounds("encrypt_rounds", st.args, st.local, eiv, Zero, NoRounds, fr)

\* decrypt_block from its first statement to the start of its loop
DecryptEntry(c, fr, ivfr) ==
  LET chk == CheckArgs(c.block, c.mode, c.iv)
  IN  IF IsRaise(chk) THEN Exit(chk, c, fr, ivfr)
      ELSE BeginRounds("decrypt_rounds", c, c.block.b, <<>>, DecryptStartSum, ivfr, fr)

\* decrypt_block after its loop: pack, then the mode's branch
DecryptExit(c, fr, ivfr) ==
  LET dec == PackResult(fr.rs)
  IN  IF IsRaise(dec) THEN Exit(dec, c, fr, ivfr)
      ELSE IF IsInstance(c.mode, "CBC") THEN
        Exit(Ok(XorBytes(dec.val, c.iv.b)), c, fr, ivfr)
      ELSE IF IsFeedback(c.mode) THEN
        BeginEncryptIv("encrypt_iv_in_decrypt", c, fr, ivfr)
      ELSE IF IsInstance(c.mode, "ECB") THEN Exit(dec, c, fr, ivfr)
      ELSE Exit(Raise("ValueError", "mode"), c, fr, ivfr)

\* encrypt_iv from its first statement to the start of its loop
EncryptIvEntry(c, fr, ivfr) == BeginEncryptIv("encrypt_iv", c, fr, ivfr)

\* the return of encrypt_iv, to its caller: a context, or the statement of
\* encrypt_block or decrypt_block that called it
EncryptIvExit(at, c, fr, ivfr) ==
  LET eiv == PackResult(ivfr)
  IN  IF IsRaise(eiv) \/ at = "encrypt_iv" THEN Exit(eiv, c, fr, NoRounds)
      ELSE IF at = "encrypt_iv_in_encrypt" THEN EncryptResume(c, fr, eiv.val)
      ELSE Exit(Ok(XorBytes(fr.block, eiv.val)), c,
                [fr EXCEPT !.encrypted_iv = eiv.val], NoRounds)

(***************************************************************************)
(* The history kept across two calls of a context: a decryption of what    *)
(* the last encryption returned, in its mode and with its IV; an OFB       *)
(* encryption after a CFB one of the same block and IV; an ECB encryption  *)
(* of the value encrypt_iv was last given; an ECB call after the same ECB  *)
(* call with another IV.                                                   *)
(***************************************************************************)
Related(h, c) ==
  \/ /\ h.call.op = "encrypt_block" /\ h.result.ok
     /\ c.op = "decrypt_block" /\ c.block = Bytes(h.result.val)
     /\ c.mode = h.call.mode /\ c.iv = h.call.iv
  \/ /\ h.call.op = "encrypt_block" /\ h.call.mode = "CFB"
     /\ c.op = "encrypt_block" /\ c.mode = "OFB"
     /\ c.block = h.call.block /\ c.iv = h.call.iv
  \/ /\ h.call.op = "encrypt_iv" /\ h.result.ok
     /\ c.op = "encrypt_block" /\ c.mode = "ECB" /\ c.block = h.call.iv
  \/ /\ h.call.op \in {"encrypt_block", "decrypt_block"} /\ h.call.op = c.op
     /\ h.call.mode = "ECB" /\ c.mode = "ECB"
     /\ c.block = h.call.block /\ c.iv # h.call.iv

\* what the last encryption returned, to decrypt in its mode with its IV
Returned(p) ==
  IF hist[p].call.op = "encrypt_block" /\ hist[p].result.ok
  THEN {[block |-> Bytes(hist[p].result.val), mode |-> hist[p].call.mode,
         iv |-> hist[p].call.iv]}
  ELSE {}

(***************************************************************************)
(* Actions.                                                                *)
(***************************************************************************)
\* a step of context p that leaves out behind
Step(p, out) ==
  /\ pc' = [pc EXCEPT ![p] = out.pc]
  /\ result' = [result EXCEPT ![p] = out.result]
  /\ call' = [call EXCEPT ![p] = out.args]
  /\ frame' = [frame EXCEPT ![frameOf(p)] = out.fr]
  /\ ivframe' = [ivframe EXCEPT ![frameOf(p)] = out.ivfr]
  /\ UNCHANGED <<key, ctor>>

\* a context calls op
Enter(p, c) ==
  /\ ctor.res.ok
  /\ pc[p] = "idle"
  /\ given' = [given EXCEPT ![p] = c]
  /\ hist' = [hist EXCEPT ![p] = IF Related(hist[p], c) THEN hist[p] ELSE NoHist]
  /\ nrounds' = [nrounds EXCEPT ![p] = 0]

EncryptBlockCall(p, block, mode, iv) ==
  LET c == [op |-> "encrypt_block", block |-> block, mode |-> mode, iv |-> iv]
  IN  /\ Enter(p, c)
      /\ Step(p, EncryptEntry(c, frame[frameOf(p)], ivframe[frameOf(p)]))

DecryptBlockCall(p, block, mode, iv) ==
  LET c == [op |-> "decrypt_block", block |-> block, mode |-> mode, iv |-> iv]
  IN  /\ Enter(p, c)
      /\ Step(p, DecryptEntry(c, frame[frameOf(p)], ivframe[frameOf(p)]))

EncryptIvCall(p, iv) ==
  LET c == [op |-> "encrypt_iv", block |-> None, mode |-> "", iv |-> iv]
  IN  /\ Enter(p, c)
      /\ Step(p, EncryptIvEntry(c, frame[frameOf(p)], ivframe[frameOf(p)]))

\* one round of encrypt_block's loop
EncryptBlockRound(p) ==
  /\ pc[p] = "encrypt_rounds"
  /\ frame[frameOf(p)].rs.i < ROUNDS
  /\ frame' = [frame EXCEPT ![frameOf(p)].rs = encrypt_round(@, key)]
  /\ nrounds' = [nrounds EXCEPT ![p] = @ + 1]
  /\ UNCHANGED <<key, ctor, pc, call, ivframe, result, given, hist>>

\* the loop of encrypt_block is over: return struct.pack("!2I", v0, v1)
EncryptBlockReturn(p) ==
  /\ pc[p] = "encrypt_rounds"
  /\ frame[frameOf(p)].rs.i >= ROUNDS
  /\ Step(p, Exit(PackResult(frame[frameOf(p)].rs), call[p],
                  frame[frameOf(p)], ivframe[frameOf(p)]))
  /\ UNCHANGED <<given, nrounds, hist>>

\* one round of decrypt_block's loop
DecryptBlockRound(p) ==
  /\ pc[p] = "decrypt_rounds"
  /\ frame[frameOf(p)].rs.i < ROUNDS
  /\ frame' = [frame EXCEPT ![frameOf(p)].rs = decrypt_round(@, key)]
  /\ nrounds' = [nrounds EXCEPT ![p] = @ + 1]
  /\ UNCHANGED <<key, ctor, pc, call, ivframe, result, given, hist>>

\* the loop of decrypt_block is over: pack, the mode's branch, return
DecryptBlockFinish(p) ==
  /\ pc[p] = "decrypt_rounds"
  /\ frame[frameOf(p)].rs.i >= ROUNDS
  /\ Step(p, DecryptExit(call[p], frame[frameOf(p)], ivframe[frameOf(p)]))
  /\ UNCHANGED <<given, nrounds, hist>>

IvPositions == {"encrypt_iv", "encrypt_iv_in_encrypt", "encrypt_iv_in_decrypt"}

\* one round of encrypt_iv's loop
EncryptIvRound(p) ==
  /\ pc[p] \in IvPositions
  /\ ivframe[frameOf(p)].i < ROUNDS
  /\ ivframe' = [ivframe EXCEPT ![frameOf(p)] = encrypt_iv_round(@, key)]
  /\ nrounds' = [nrounds EXCEPT ![p] = @ + 1]
  /\ UNCHANGED <<key, ctor, pc, call, frame, result, given, hist>>

\* the loop of encrypt_iv is over: return struct.pack("!2I", v0, v1)
EncryptIvReturn(p) ==
  /\ pc[p] \in IvPositions
  /\ ivframe[frameOf(p)].i >= ROUNDS
  /\ Step(p, EncryptIvExit(pc[p], call[p], frame[frameOf(p)], ivframe[frameOf(p)]))
  /\ UNCHANGED <<given, nrounds, hist>>

\* the caller has the result (or the exception); the call's frames are gone
Return(p) ==
  /\ pc[p] = "done"
  /\ pc' = [pc EXCEPT ![p] = "idle"]
  /\ hist' = [hist EXCEPT ![p] = [call |-> given[p], result |-> result[p]]]
  /\ call' = [call EXCEPT ![p] = NoCall]
  /\ given' = [given EXCEPT ![p] = NoCall]
  /\ result' = [result EXCEPT ![p] = Pending]
  /\ nrounds' = [nrounds EXCEPT ![p] = 0]
  /\ frame' = [frame EXCEPT ![frameOf(p)] = NoFrame]
  /\ ivframe' = [ivframe EXCEPT ![frameOf(p)] = NoRounds]
  /\ UNCHANGED <<key, ctor>>

(***************************************************************************)
(* The cipher is constructed from any of the key arguments; then one       *)
(* context makes calls one after the other.                                *)
(***************************************************************************)
Start(k) ==
  /\ ctor = [arg |-> k, res |-> TEA_init(k)]
  /\ key = TEA_init(k).val
  /\ pc = [p \in Ctx |-> "idle"]
  /\ call = [p \in Ctx |-> NoCall]
  /\ given = [p \in Ctx |-> NoCall]
  /\ frame = [p \in Ctx |-> NoFrame]
  /\ ivframe = [p \in Ctx |-> NoRounds]
  /\ result = [p \in Ctx |-> Pending]
  /\ nrounds = [p \in Ctx |-> 0]
  /\ hist = [p \in Ctx |-> NoHist]

Init == \E k \in KeyArgs : Start(k)

Next ==
  \E p \in {1} :
    \/ \E b \in BlockArgs, m \in ModeArgs, iv \in IvArgs : EncryptBlockCall(p, b, m, iv)
    \/ \E b \in BlockArgs, m \in ModeArgs, iv \in IvArgs : DecryptBlockCall(p, b, m, iv)
    \/ \E c \in Returned(p) : DecryptBlockCall(p, c.block, c.mode, c.iv)
    \/ \E iv \in IvArgs \cup BlockArgs : EncryptIvCall(p, iv)
    \/ EncryptBlockRound(p)
    \/ EncryptBlockReturn(p)
    \/ DecryptBlockRound(p)
    \/ DecryptBlockFinish(p)
    \/ EncryptIvRound(p)
    \/ EncryptIvReturn(p)
    \/ Return(p)

Spec == Init /\ [][Next]_vars

(***************************************************************************)
(* The three methods as functions of self.key and the arguments: a call    *)
(* run from its first statement to its return with nothing in between.     *)
(***************************************************************************)
RECURSIVE EncryptIvLoop(_, _)
EncryptIvLoop(st, k) ==
  IF st.i >= ROUNDS THEN st ELSE EncryptIvLoop(encrypt_iv_round(st, k), k)

RECURSIVE EncryptLoop(_, _)
EncryptLoop(st, k) ==
  IF st.i >= ROUNDS THEN st ELSE EncryptLoop(encrypt_round(st, k), k)

RECURSIVE DecryptLoop(_, _)
DecryptLoop(st, k) ==
  IF st.i >= ROUNDS THEN st ELSE DecryptLoop(decrypt_round(st, k), k)

encrypt_iv(k, iv) ==
  IF IsRaise(CheckIv(iv)) THEN CheckIv(iv)
  ELSE PackResult(EncryptIvLoop(StartRounds(iv.b, Zero), k))

\* the rounds of encrypt_block on its local block b
EncryptTail(k, b) ==
  IF Len(b) # 8 THEN Raise("struct.error", "")
  ELSE PackResult(EncryptLoop(StartRounds(b, Zero), k))

encrypt_block(k, block, mode, iv) ==
  IF IsRaise(CheckArgs(block, mode, iv)) THEN CheckArgs(block, mode, iv)
  ELSE IF IsInstance(mode, "CBC") THEN EncryptTail(k, XorBytes(block.b, iv.b))
  ELSE IF IsFeedback(mode) THEN
    LET eiv == encrypt_iv(k, iv)
    IN  IF IsRaise(eiv) THEN eiv ELSE EncryptTail(k, XorBytes(block.b, eiv.val))
  ELSE IF IsInstance(mode, "ECB") THEN EncryptTail(k, block.b)
  ELSE Raise("ValueError", "mode")

decrypt_block(k, block, mode, iv) ==
  IF IsRaise(CheckArgs(block, mode, iv)) THEN CheckArgs(block, mode, iv)
  ELSE
    LET dec == PackResult(DecryptLoop(StartRounds(block.b, DecryptStartSum), k))
    IN  IF IsRaise(dec) THEN dec
        ELSE IF IsInstance(mode, "CBC") THEN Ok(XorBytes(dec.val, iv.b))
        ELSE IF IsFeedback(mode) THEN
          LET eiv == encrypt_iv(k, iv)
          IN  IF IsRaise(eiv) THEN eiv ELSE Ok(XorBytes(block.b, eiv.val))
        ELSE IF IsInstance(mode, "ECB") THEN dec
        ELSE Raise("ValueError", "mode")

\* the call c on a cipher whose key is k
Alone(k, c) ==
  IF c.op = "encrypt_block" THEN encrypt_block(k, c.block, c.mode, c.iv)
  ELSE IF c.op = "decrypt_block" THEN decrypt_block(k, c.block, c.mode, c.iv)
  ELSE encrypt_iv(k, c.iv)

(***************************************************************************)
(* The same cipher called from every context at once, each context with    *)
(* arguments of its own: the rounds of the calls in progress interleave in *)
(* any order.                                                              *)
(***************************************************************************)
ConcCalls(p) ==
  LET b  == Bytes(BlockNo((p - 1) % NumBlocks))
      iv == Bytes(IvNo((p - 1) % NumIvs))
  IN  IF p % 3 = 1 THEN
        {[op |-> "encrypt_block", block |-> b, mode |-> "CFB", iv |-> iv]}
      ELSE IF p % 3 = 2 THEN
        {[op |-> "decrypt_block", block |-> b, mode |-> "OFB", iv |-> iv],
         [op |-> "encrypt_iv", block |-> None, mode |-> "", iv |-> iv]}
      ELSE
        {[op |-> "encrypt_block", block |-> b, mode |-> "CBC", iv |-> iv]}

ConcKey == KeyNo(0)

\* what each of these calls returns when it runs alone
AloneResults ==
  [c \in UNION {ConcCalls(p) : p \in Ctx} |-> Alone(ConcKey, c)]

InitConc == \E k \in {Bytes(ConcKey)} : Start(k)

NextConc ==
  \E p \in Ctx :
    \/ \E c \in ConcCalls(p) :
         c.op = "encrypt_block" /\ EncryptBlockCall(p, c.block, c.mode, c.iv)
    \/ \E c \in ConcCalls(p) :
         c.op = "decrypt_block" /\ DecryptBlockCall(p, c.block, c.mode, c.iv)
    \/ \E c \in ConcCalls(p) : c.op = "encrypt_iv" /\ EncryptIvCall(p, c.iv)
    \/ EncryptBlockRound(p)
    \/ EncryptBlockReturn(p)
    \/ DecryptBlockRound(p)
    \/ DecryptBlockFinish(p)
    \/ EncryptIvRound(p)
    \/ EncryptIvReturn(p)
    \/ Return(p)

SpecConc == InitConc /\ [][NextConc]_vars

(***************************************************************************)
(* Ciphers constructed from valid keys that agree on bytes 0 to 3 and      *)
(* differ in every byte from 4 to 15; one context makes calls one after    *)
(* the other.                                                              *)
(***************************************************************************)
KeyTailNo(n) ==
  [i \in 1..16 |->
     IF i <= 4 THEN KeyNo(0)[i] ELSE ((i - 1) * (n + 1) + 101 * n) % 256]

PrefixKeys == {KeyTailNo(n) : n \in 0..(NumTails - 1)}

InitKeys == \E k \in PrefixKeys : Start(Bytes(k))

SpecKeys == InitKeys /\ [][Next]_vars

(***************************************************************************)
(* Properties.                                                             *)
(***************************************************************************)
Done(p) == pc[p] = "done"

IsBytesOf(v, n) == v.t = "bytes" /\ Len(v.b) = n

TheModes == {"ECB", "CBC", "CFB", "OFB"}

\* the current call of p decrypts what its last call, an encryption, returned,
\* in the same mode and with the same IV
DecryptsLast(p) ==
  /\ given[p].op = "decrypt_block"
  /\ hist[p].call.op = "encrypt_block" /\ hist[p].result.ok
  /\ given[p].block = Bytes(hist[p].result.val)
  /\ given[p].mode = hist[p].call.mode /\ given[p].iv = hist[p].call.iv

\* C1: Round-trip.  For every valid key, 8-byte block, mode of ECB, CBC, CFB,
\* OFB and 8-byte IV, decrypt_block of what encrypt_block returned, in the
\* same mode and with the same IV, returns the original block.
C1_RoundTrip ==
  \A p \in Ctx :
    ( /\ Done(p) /\ DecryptsLast(p)
      /\ given[p].mode \in TheModes
      /\ IsBytesOf(hist[p].call.block, 8) /\ IsBytesOf(given[p].iv, 8) )
    => result[p] = Ok(hist[p].call.block.b)

\* C2: In CFB and OFB mode, for every key, 8-byte block and 8-byte IV, what
\* encrypt_block returns is the block XOR encrypt_iv(iv), with no further
\* transform applied.
C2_FeedbackIsXor ==
  \A p \in Ctx :
    ( /\ Done(p) /\ given[p].op = "encrypt_block"
      /\ given[p].mode \in {"CFB", "OFB"}
      /\ IsBytesOf(given[p].block, 8) /\ IsBytesOf(given[p].iv, 8) )
    => result[p] = Ok(XorBytes(given[p].block.b, encrypt_iv(key, given[p].iv).val))

\* the current call of p repeats its last call, an ECB one, with another IV
SameEcbCallOtherIv(p) ==
  /\ hist[p].call.op = given[p].op /\ hist[p].call.mode = "ECB"
  /\ hist[p].call.block = given[p].block /\ hist[p].call.iv # given[p].iv

\* C3: In ECB mode the IV is neither required nor size-checked and is
\* ignored: encrypt_block and decrypt_block of a valid 8-byte block succeed
\* with the IV absent, and the result is the same whatever IV is passed.
C3_EcbIgnoresIv ==
  \A p \in Ctx :
    ( /\ Done(p) /\ given[p].op \in {"encrypt_block", "decrypt_block"}
      /\ given[p].mode = "ECB" /\ IsBytesOf(given[p].block, 8) )
    => /\ result[p].ok
       /\ SameEcbCallOtherIv(p) => result[p] = hist[p].result

\* the IV is one the mode accepts: 8 bytes when the mode requires an IV, and
\* anything, absent too, when it does not
IvFitsMode(mode, iv) == mode = "ECB" \/ IsBytesOf(iv, 8)

\* the call of p ended in the error about the named argument, with no block
\* returned
FailedAbout(p, arg) == ~result[p].ok /\ result[p].about = arg /\ result[p].val = <<>>

\* C4: Each kind of malformed input is rejected with its own error kind: a
\* key that is not exactly 16 bytes with the key error; a block that is not
\* exactly 8 bytes with the block error; mode CBC with the IV absent with the
\* IV error; an unrecognized mode with the mode error; no block is returned.
C4_ErrorKinds ==
  /\ (ctor.arg.t = "bytes" /\ Len(ctor.arg.b) # 16)
       => (~ctor.res.ok /\ ctor.res.about = "key" /\ key = <<>>)
  /\ \A p \in Ctx :
       (Done(p) /\ given[p].op = "encrypt_block") =>
         /\ ( /\ given[p].block.t = "bytes" /\ Len(given[p].block.b) # 8
              /\ given[p].mode \in TheModes
              /\ IvFitsMode(given[p].mode, given[p].iv) )
            => FailedAbout(p, "block")
         /\ ( /\ given[p].mode = "CBC" /\ given[p].iv = None
              /\ IsBytesOf(given[p].block, 8) )
            => FailedAbout(p, "iv")
         /\ ( /\ given[p].mode \notin TheModes
              /\ IsBytesOf(given[p].block, 8) /\ IsBytesOf(given[p].iv, 8) )
            => FailedAbout(p, "mode")

\* the current call of p is the OFB encryption of the block its last call
\* encrypted in CFB mode, with the same IV
OfbAfterCfb(p) ==
  /\ given[p].op = "encrypt_block" /\ given[p].mode = "OFB"
  /\ hist[p].call.op = "encrypt_block" /\ hist[p].call.mode = "CFB"
  /\ given[p].block = hist[p].call.block /\ given[p].iv = hist[p].call.iv

\* C5: Mode equivalence.  With the same key, block and IV, encrypt_block in
\* OFB mode returns what encrypt_block in CFB mode returns.
C5_CfbEqualsOfb ==
  \A p \in Ctx : (Done(p) /\ OfbAfterCfb(p)) => result[p] = hist[p].result

C5_Witness ==
  \E p \in Ctx :
    /\ Done(p) /\ OfbAfterCfb(p) /\ result[p].ok
    /\ IsBytesOf(given[p].block, 8) /\ IsBytesOf(given[p].iv, 8)

\* C6: Call independence.  What a call of encrypt_block, decrypt_block or
\* encrypt_iv ends in is what the same call ends in when it runs alone: it
\* depends neither on the calls made before it nor on the calls of the other
\* contexts whose rounds interleave with its own.
C6_CallIndependence ==
  \A p \in Ctx : Done(p) => result[p] = AloneResults[given[p]]

\* a CFB encryption ends, after its 64 rounds, while another context is in
\* the middle of the rounds of a decryption
C6_Witness ==
  /\ Done(1) /\ result[1].ok /\ nrounds[1] = 64
  /\ pc[2] = "decrypt_rounds" /\ frame[frameOf(2)].rs.i = 16

\* C7: No call changes the cipher instance or the caller's arguments: the
\* key is the key given at construction in every state, and the block, mode
\* and IV objects of a call in progress or finished are as they were passed.
C7_InstanceUnchanged ==
  /\ ctor.res.ok => key = ctor.arg.b
  /\ ~ctor.res.ok => key = <<>>
  /\ \A p \in Ctx : call[p] = given[p]

\* a CBC encryption has finished: its local block was rebound to block XOR iv
C7_Witness ==
  \E p \in Ctx :
    /\ Done(p) /\ given[p].op = "encrypt_block" /\ given[p].mode = "CBC"
    /\ result[p].ok /\ frame[frameOf(p)].block # given[p].block.b

\* the current call of p is the ECB encryption of the value its last call
\* gave to encrypt_iv
EcbAfterEncryptIv(p) ==
  /\ given[p].op = "encrypt_block" /\ given[p].mode = "ECB"
  /\ hist[p].call.op = "encrypt_iv" /\ hist[p].result.ok
  /\ given[p].block = hist[p].call.iv
  /\ given[p].iv.t = "bytes"

\* C8: encrypt_iv is the raw core transform: encrypt_iv(x) is what
\* encrypt_block(x, ECB, iv) returns, for any IV (a bytes object of any
\* length); and encrypt_iv raises on a value that is not exactly 8 bytes.
C8_EncryptIvIsEcb ==
  \A p \in Ctx :
    /\ (Done(p) /\ EcbAfterEncryptIv(p)) => result[p] = hist[p].result
    /\ (Done(p) /\ given[p].op = "encrypt_iv" /\ ~IsBytesOf(given[p].iv, 8))
         => (IsRaise(result[p]) /\ nrounds[p] = 0)
    /\ (Done(p) /\ given[p].op = "encrypt_iv" /\ IsBytesOf(given[p].iv, 8))
         => result[p].ok

C8_Witness ==
  \E p \in Ctx :
    /\ Done(p) /\ EcbAfterEncryptIv(p) /\ result[p].ok
    /\ ~IsBytesOf(given[p].iv, 8)

\* C9: Eager validation.  A call of encrypt_block or decrypt_block that ends
\* in an error has run no round of the core transform.
C9_EagerValidation ==
  \A p \in Ctx :
    ( /\ Done(p) /\ given[p].op \in {"encrypt_block", "decrypt_block"}
      /\ IsRaise(result[p]) )
    => nrounds[p] = 0

\* n * DELTA mod 2^32
MulDelta(n) ==
  <<(n * DELTA[1] + ((n * DELTA[2]) \div Half)) % Half, (n * DELTA[2]) % Half>>

RoundsInRange(rs) == InRange32(rs.v0) /\ InRange32(rs.v1) /\ InRange32(rs.s)

\* a loop of the encryption direction after rs.i rounds
EncryptSchedule(rs) ==
  /\ rs.i \in 0..32
  /\ rs.s = MulDelta(rs.i)
  /\ rs.i = 0 => rs.s = Zero
  /\ rs.i >= 1 => rs.used = MulDelta(rs.i)
  /\ rs.i = 32 => rs.s = <<50927, 14112>>
  /\ RoundsInRange(rs)

\* the loop of the decryption direction after rs.i rounds: round j used the
\* sum that encryption round 33 - j used
DecryptSchedule(rs) ==
  /\ rs.i \in 0..32
  /\ rs.s = MulDelta(32 - rs.i)
  /\ rs.i = 0 => rs.s = <<50927, 14112>>
  /\ rs.i >= 1 => rs.used = MulDelta(33 - rs.i)
  /\ rs.i = 32 => rs.s = Zero
  /\ RoundsInRange(rs)

\* the loops a finished call has run
Transforms(c) ==
  IF c.op \in {"encrypt_block", "decrypt_block"} /\ c.mode \in {"CFB", "OFB"}
  THEN 2 ELSE 1

\* C10: Sum schedule.  Every transform runs exactly 32 rounds.  Encrypting,
\* the sum starts at 0, grows by 0x9E3779B9 mod 2^32 before each round's
\* updates and ends at 0xC6EF3720; decrypting, it starts at 0xC6EF3720,
\* shrinks by the same after each round's updates and ends at 0, so that
\* decryption round j uses the sum of encryption round 33 - j; v0, v1 and
\* the sum are in [0, 2^32) after every round.
C10_SumSchedule ==
  \A p \in Ctx :
    /\ pc[p] = "encrypt_rounds" => EncryptSchedule(frame[frameOf(p)].rs)
    /\ pc[p] = "decrypt_rounds" => DecryptSchedule(frame[frameOf(p)].rs)
    /\ pc[p] \in IvPositions => EncryptSchedule(ivframe[frameOf(p)])
    /\ (Done(p) /\ result[p].ok) =>
         /\ nrounds[p] = 32 * Transforms(given[p])
         /\ given[p].op # "encrypt_iv" => frame[frameOf(p)].rs.i = 32

\* decryption has run its 32 rounds and its sum is back at 0
C10_Witness ==
  \E p \in Ctx :
    /\ pc[p] = "decrypt_rounds"
    /\ frame[frameOf(p)].rs.i = 32 /\ frame[frameOf(p)].rs.s = Zero
    /\ frame[frameOf(p)].rs.used = DELTA

\* bytes 0 to 3 of a key
FirstFour(k) == SubSeq(k, 1, 4)

\* C11: Only key bytes 0 to 3 influence a result.  What a call on a cipher
\* with a valid 16-byte key ends in is what the same call ends in on a cipher
\* whose key has the same first four bytes, whatever its bytes 4 to 15 are,
\* for encrypt_block, decrypt_block and encrypt_iv with every block, mode
\* and IV; the first four bytes alone determine it (no byte from 4 to 15 is
\* read), and each subkey is one byte of the key, a value in 0..255.
C11_OnlyFirstFourKeyBytes ==
  \A p \in Ctx :
    Done(p) =>
      /\ \A k \in PrefixKeys :
           FirstFour(k) = FirstFour(key) => result[p] = Alone(k, given[p])
      /\ result[p] = Alone(FirstFour(key), given[p])
      /\ \A i \in 1..4 : key[i] \in 0..255 /\ OfByte(key[i]) = <<0, key[i]>>

\* an encryption has returned on a cipher whose key differs from another
\* valid key in every byte from 4 to 15 and in none from 0 to 3
C11_Witness ==
  \E p \in Ctx, k \in PrefixKeys :
    /\ Done(p) /\ result[p].ok /\ given[p].op = "encrypt_block"
    /\ Len(key) = 16 /\ Len(k) = 16
    /\ \A i \in 1..16 : (k[i] = key[i]) = (i <= 4)

=============================================================================
